---- MODULE Spec2Model ----
(***************************************************************************)
(* The match event ledger and the score it derives, as implemented by the  *)
(* game detail page of qfl-admin (src/src/app/(protected)/games/[id]/      *)
(* page.tsx).  The page is a React client: every handler is an async       *)
(* function that awaits HTTP requests, so a handler is split here at its   *)
(* awaits.  A handler reads the state of the render in which the click     *)
(* happened (its closure), so the values it uses after an await are the    *)
(* ones captured at the click.                                             *)
(*                                                                         *)
(* The HTTP backend is not part of the repository.  It is modelled as a    *)
(* store that either applies a request as sent or refuses it; a request    *)
(* may also be lost (fetch rejects).  A request's effect on the store and  *)
(* the arrival of its response are one step.  An ok response carries a     *)
(* JSON body, so parseJsonOrThrow returns for it.                          *)
(***************************************************************************)
EXTENDS Integers, Sequences, FiniteSets, TLC

\* ---------------------------------------------------------------- bounds
\* Events ever created for the match (ids are 1..MaxEventId).
MaxEventId == 2
\* Largest score an operator types into the Home/Away Score inputs.
MaxScore == 1
\* How many of EVENT_TYPES the operators and the feed use (the first ones).
MaxType == 4
\* How many of STATUS_OPTIONS the operators select (the first ones).
MaxStatus == 1
\* Players of the two teams' rosters: ids 1..MaxPlayer.
MaxPlayer == 3
\* Lineup entry ids handed out by the backend: 1..MaxLineupId.
MaxLineupId == 2

\* ------------------------------------------------------------- constants
\* number | null : the absent value of a nullable score.
null == -1

\* The operator pages open on the match.
Clients == {"op1", "op2"}

STATUS_OPTIONS ==
  <<"created", "live", "finished", "postponed", "cancelled", "technical_defeat">>

EVENT_TYPES ==
  <<"goal", "own_goal", "penalty", "missed_penalty", "yellow_card",
    "second_yellow", "red_card", "substitution", "assist">>

Types == {EVENT_TYPES[i] : i \in 1..MaxType}
Statuses == {STATUS_OPTIONS[i] : i \in 1..MaxStatus}

\* A variant of SCORE_EVENT_TYPES that also lists a card.
ScoreTypesWithCard == {"goal", "own_goal", "penalty", "yellow_card"}

SCORE_EVENT_TYPES == {"goal", "own_goal", "penalty"}

\* game.home_team_id, game.away_team_id and the null team reference.
home_team_id == "TeamA"
away_team_id == "TeamB"
no_team_id == "none"

\* The values of the Team select of the add-event form.
AddEvtTeams == {"home", "away", ""}

\* The outcomes of one awaited request: an ok response, a non-ok response,
\* or a rejected fetch (an exception at the await).
Outcomes == {"ok", "fail", "reject"}

\* The reloads (GET requests) are followed only when they succeed.
ReadOutcomes == {"ok"}

Range(s) == {s[i] : i \in 1..Len(s)}

LINEUP_TYPES == <<"starter", "substitute">>

\* The players that GET /teams/{teamId}/players lists for a team: the last
\* player plays for the away team, the others for the home team.
Players == 1..MaxPlayer
RosterOf(side) ==
  IF side = "home" THEN Players \ {MaxPlayer} ELSE {MaxPlayer}

\* String(n) of a player id and Number(s) of the text of a form field.
String(n) == <<"1", "2", "3", "4", "5", "6">>[n]

Number(s) ==
  CASE s = "" -> 0
    [] s = "-1" -> 0 - 1
    [] s = "45" -> 45
    [] OTHER -> CHOOSE n \in 1..6 : String(n) = s

\* --------------------------------------------------------------- state
VARIABLES
  srvEvents,   \* the ledger stored by the backend, in insertion order
  srvGame,     \* the match row: home_score, away_score
  srvStatus,   \* the match row: status
  nextId,      \* the next auto-increment event id
  page,        \* per client: the useState cells of GameDetailPage
  evtOp,       \* per client: the events-section handler in flight
  saveOp,      \* per client: the saveGame / resetStatus handler in flight
  hist,        \* per client: the add-then-delete pair being observed
               \* (history only: no handler reads it)
  srvLineup,   \* the lineup stored by the backend, in insertion order
  nextLineupId, \* the next auto-increment lineup entry id
  lineupOp,    \* per client: the lineup-section handler in flight
  user,        \* AuthProvider: the user cell
  accessToken, \* AuthProvider: the accessToken cell
  loading,     \* AuthProvider: the loading cell
  tokenKey,    \* localStorage: the item qfl_admin_access_token
  route,       \* the router: "protected" (a page under ProtectedLayout) or "login"
  boot,        \* the position of bootstrap
  call,        \* per caller: an authFetch in flight
  logoutOp,    \* the position of logout
  loginOp,     \* the position of login
  nextToken    \* the next access token that the backend issues

lineupVars == <<srvLineup, nextLineupId, lineupOp>>

authVars == <<user, accessToken, loading, tokenKey, route, boot, call,
              logoutOp, loginOp, nextToken>>

vars == <<srvEvents, srvGame, srvStatus, nextId, page, evtOp, saveOp, hist,
          srvLineup, nextLineupId, lineupOp,
          user, accessToken, loading, tokenKey, route, boot, call,
          logoutOp, loginOp, nextToken>>

\* ------------------------------------------------------ pure functions
\* nullish coalescing: x ?? d
Coalesce(x, d) == IF x = null THEN d ELSE x

\* addEvent, line 495: the team_id sent in the POST body.
TeamIdOf(addEvtTeam) ==
  IF addEvtTeam = "home" THEN home_team_id
  ELSE IF addEvtTeam = "away" THEN away_team_id
  ELSE no_team_id

\* addEvent, line 525: the team used for the score increment.
EvtTeamId(addEvtTeam) ==
  IF addEvtTeam = "home" THEN home_team_id ELSE away_team_id

\* A variant of AddScore that credits an own goal to the team of the event.
AddScoreSameSide(addEvtType, addEvtTeam, game) ==
  LET newHome == Coalesce(game.home_score, 0)
      newAway == Coalesce(game.away_score, 0)
  IN  IF addEvtType \in SCORE_EVENT_TYPES
        THEN IF EvtTeamId(addEvtTeam) = home_team_id
               THEN <<newHome + 1, newAway>>
               ELSE <<newHome, newAway + 1>>
      ELSE <<newHome, newAway>>

\* A variant of AddScore that does not count a penalty.
AddScoreGoalsOnly(addEvtType, addEvtTeam, game) ==
  LET newHome == Coalesce(game.home_score, 0)
      newAway == Coalesce(game.away_score, 0)
  IN  IF addEvtType = "goal"
        THEN IF EvtTeamId(addEvtTeam) = home_team_id
               THEN <<newHome + 1, newAway>>
               ELSE <<newHome, newAway + 1>>
      ELSE IF addEvtType = "own_goal"
        THEN IF EvtTeamId(addEvtTeam) = home_team_id
               THEN <<newHome, newAway + 1>>
               ELSE <<newHome + 1, newAway>>
      ELSE <<newHome, newAway>>

\* addEvent, lines 526-534: the score written after an append, computed from
\* the score of the cached game.
AddScore(addEvtType, addEvtTeam, game) ==
  LET evtTeamId == EvtTeamId(addEvtTeam)
      newHome == Coalesce(game.home_score, 0)
      newAway == Coalesce(game.away_score, 0)
  IN  IF addEvtType \in {"goal", "penalty"}
        THEN IF evtTeamId = home_team_id THEN <<newHome + 1, newAway>>
             ELSE IF evtTeamId = away_team_id THEN <<newHome, newAway + 1>>
             ELSE <<newHome, newAway>>
      ELSE IF addEvtType = "own_goal"
        THEN IF evtTeamId = home_team_id THEN <<newHome, newAway + 1>>
             ELSE IF evtTeamId = away_team_id THEN <<newHome + 1, newAway>>
             ELSE <<newHome, newAway>>
      ELSE <<newHome, newAway>>

\* A variant of ScoreStep that credits an own goal to the team of the event.
ScoreStepSameSide(ev, acc) ==
  IF ev.event_type \in SCORE_EVENT_TYPES
    THEN IF ev.team_id = home_team_id THEN <<acc[1] + 1, acc[2]>>
         ELSE IF ev.team_id = away_team_id THEN <<acc[1], acc[2] + 1>>
         ELSE acc
  ELSE acc

\* deleteEvent, lines 468-474: what one event adds to (home, away).
ScoreStep(ev, acc) ==
  IF ev.event_type \in {"goal", "penalty"}
    THEN IF ev.team_id = home_team_id THEN <<acc[1] + 1, acc[2]>>
         ELSE IF ev.team_id = away_team_id THEN <<acc[1], acc[2] + 1>>
         ELSE acc
  ELSE IF ev.event_type = "own_goal"
    THEN IF ev.team_id = home_team_id THEN <<acc[1], acc[2] + 1>>
         ELSE IF ev.team_id = away_team_id THEN <<acc[1] + 1, acc[2]>>
         ELSE acc
  ELSE acc

\* deleteEvent, lines 466-475: let home = 0, away = 0; for (ev of remaining).
RECURSIVE FoldFrom(_, _)
FoldFrom(remaining, acc) ==
  IF remaining = <<>> THEN acc
  ELSE FoldFrom(Tail(remaining), ScoreStep(Head(remaining), acc))

\* A variant of FoldScore whose loop ends at the first event that does not
\* count for the score (a break where the code goes on to the next event).
FoldScoreUntilOther(remaining) ==
  LET others == {i \in 1..Len(remaining) :
                   remaining[i].event_type \notin SCORE_EVENT_TYPES}
      first == CHOOSE i \in others : \A j \in others : i <= j
  IN  FoldFrom(IF others = {} THEN remaining
               ELSE SubSeq(remaining, 1, first - 1), <<0, 0>>)

FoldScore(remaining) == FoldFrom(remaining, <<0, 0>>)

\* The score that the ledger stands for, counted as the consistency invariant
\* states it: goals and penalties of a team plus own goals of the other.
Count(ledger, types, team) ==
  Cardinality({i \in 1..Len(ledger) :
                 ledger[i].event_type \in types /\ ledger[i].team_id = team})

LedgerScore(ledger) ==
  <<Count(ledger, {"goal", "penalty"}, home_team_id)
      + Count(ledger, {"own_goal"}, away_team_id),
    Count(ledger, {"goal", "penalty"}, away_team_id)
      + Count(ledger, {"own_goal"}, home_team_id)>>

\* deleteEvent, line 465: events.filter(e => e.id !== eventId)
Remaining(events, eventId) == SelectSeq(events, LAMBDA e : e.id # eventId)

\* deleteEvent, line 459: events.find(e => e.id === eventId) is defined
Found(events, eventId) == \E e \in Range(events) : e.id = eventId

EventOf(events, eventId) == CHOOSE e \in Range(events) : e.id = eventId

\* lineup.find(e => String(e.player_id) === id), lines 496 and 601: the
\* positions of the entries that match, and the first of them.
Matches(lineup, id) ==
  {i \in 1..Len(lineup) : String(lineup[i].player_id) = id}

Find(lineup, id) ==
  lineup[CHOOSE i \in Matches(lineup, id) : \A j \in Matches(lineup, id) : i <= j]

\* addEvent, lines 497-513: p?.player_id ?? null
FindInLineup(lineup, id) ==
  IF Matches(lineup, id) = {} THEN null ELSE Find(lineup, id).player_id


\* ----------------------------------------------------------- the backend
\* The match row as GET /games/{id} returns it.
Game(home, away) ==
  [home_score |-> home, away_score |-> away,
   home_penalty_score |-> null, away_penalty_score |-> null,
   sync_disabled |-> FALSE]

\* An event row as GET /games/{id}/events returns it.
EventRow(id, type, team, half, minute, p1, p2, pa) ==
  [id |-> id, event_type |-> type, team_id |-> team,
   half |-> half, minute |-> minute,
   player_id |-> p1, player2_id |-> p2, assist_player_id |-> pa]

\* An event of the first half without participants.
Event(id, type, team) == EventRow(id, type, team, 1, 45, null, null, null)

\* A lineup row as GET /games/{id}/lineup returns it.
LineupRow(id, player, team, type, captain) ==
  [id |-> id, player_id |-> player, team_id |-> team, lineup_type |-> type,
   is_captain |-> captain]

\* PATCH /games/{id} with the body of saveGame, lines 307-319: the fields of
\* the match that are followed here (the status is followed in srvStatus).
GamePatched(g, body) ==
  [g EXCEPT !.home_score = body.home, !.away_score = body.away,
            !.home_penalty_score = body.home_penalty_score,
            !.away_penalty_score = body.away_penalty_score,
            !.sync_disabled = body.sync_disabled]

\* A variant of ScorePatched whose body also carries the sync flag.
ScorePatchedWithSync(g, home, away) ==
  [g EXCEPT !.home_score = home, !.away_score = away, !.sync_disabled = FALSE]

\* PATCH /games/{id} with {home_score, away_score}: patchScore, line 550.
ScorePatched(g, home, away) ==
  [g EXCEPT !.home_score = home, !.away_score = away]


\* ----------------------------------------------------------- the page
\* A handler of the events section between two awaits.  type and team are
\* the form values of the click; scoring, home and away are what the handler
\* will do after the await: they depend only on the state of the render it
\* closes over, so they are fixed at the click.
NoEvtOp ==
  [kind |-> "idle", pc |-> "idle", type |-> "", team |-> "", eventId |-> 0,
   scoring |-> FALSE, home |-> 0, away |-> 0,
   half |-> 0, minute |-> 0,
   player_id |-> null, player2_id |-> null, assist_player_id |-> null]

\* A handler of the lineup section between two awaits: the body of the POST
\* of addLineup or the entry id of the DELETE of deleteLineup.
NoLineupOp ==
  [kind |-> "idle", lineupId |-> 0, player_id |-> 0, team_id |-> "",
   lineup_type |-> "", is_captain |-> FALSE]

NoSaveOp ==
  [kind |-> "idle", home |-> 0, away |-> 0, status |-> "",
   home_penalty_score |-> null, away_penalty_score |-> null,
   sync_disabled |-> FALSE]

\* History of one addEvent and the deleteEvent of the event it created, with
\* no other change of the stored match in between: pre is the stored score
\* at the click of addEvent, consistent says that this score was the fold of
\* the ledger and that the page showed the stored match, phase is how far
\* the pair has come ("adding", "added", "deleting", "done").
NoHist ==
  [phase |-> "none", id |-> 0, type |-> "", team |-> "", pre |-> <<0, 0>>,
   consistent |-> FALSE]

Score(g) == <<g.home_score, g.away_score>>

\* Lines 573-575: the page renders its sections only when the game is loaded.
PageShown(c) == ~page[c].gameLoading /\ ~page[c].gameError

\* fetchGame up to its await, lines 191-194.  gameLoading also says that a
\* GET of the game is in flight: when a second fetchGame starts before the
\* first has been answered, the two are followed as one, answered once.
FetchGameStarted(p) == [p EXCEPT !.gameLoading = TRUE, !.gameError = FALSE]

\* fetchEvents up to its await, lines 232-235; eventsLoading as gameLoading.
FetchEventsStarted(p) == [p EXCEPT !.eventsLoading = TRUE]

\* Event POSTs that have been sent and not yet answered.
PostsInFlight ==
  Cardinality({c \in Clients : evtOp[c].kind = "addEvent" /\ evtOp[c].pc = "post"})

\* History: any other change of the stored match ends every observed pair.
NoPairs == [c \in Clients |-> NoHist]

\* The texts of addEvtMsg: line 489 (in Latin letters here), line 518, and the message of the Error
\* that line 539 catches (the detail of a non-ok response, parseJsonOrThrow
\* lines 24-59, or the message of a rejected fetch), followed as one text.
NoMinuteMsg == "Ukazhite minutu"
AddedMsg == "Added!"
ErrMsg == "error"

\* The useState cells of a page that has just been mounted, lines 125-177,
\* with the loads of the mount effect (lines 260-265) in flight.  The game
\* cell is not read before the first load has been answered.
NewPage ==
  [game |-> Game(0, 0), status |-> "created",
   gameLoading |-> TRUE, gameError |-> FALSE,
   events |-> <<>>, eventsLoading |-> TRUE,
   eventsBusy |-> FALSE, saveLoading |-> FALSE,
   lineup |-> <<>>, lineupLoading |-> TRUE, lineupBusy |-> FALSE,
   addEvtHalf |-> "1", addEvtMinute |-> "", addEvtType |-> "goal",
   addEvtTeam |-> "", addEvtPlayerId |-> "", addEvtPlayer2Id |-> "",
   addEvtAssistId |-> "", addEvtMsg |-> "",
   editHomePenalty |-> "", editAwayPenalty |-> "", editSyncDisabled |-> FALSE,
   addLineupTeam |-> "home", addLineupPlayers |-> "", addLineupPlayer |-> "",
   playersLoad |-> ""]

\* ------------------------------------------------------- AuthProvider
\* AuthContext.tsx.  A token is a positive number, a user is the number 1;
\* null is no token and no user.
\* An authFetch between two awaits: token is the accessToken of the closure
\* (line 67), retryOnUnauthorized the third argument, sent and refreshes
\* count the requests to the target path and to /auth/refresh that the call
\* has sent, first the status of the first response, retryToken the token of
\* the second request and result what the call has returned.
NoCall ==
  [pc |-> "idle", token |-> null, retryOnUnauthorized |-> TRUE, sent |-> 0,
   refreshes |-> 0, first |-> "", retryToken |-> null, result |-> ""]

\* Who calls authFetch: a page under ProtectedLayout, and logout.
Callers == {"page", "logout"}

\* The operator is signed in and a protected page is shown: the state in
\* which the pages of the operators are used.
SignedIn ==
  /\ user = 1
  /\ accessToken = 1
  /\ loading = FALSE
  /\ tokenKey = 1
  /\ route = "protected"
  /\ boot = "done"
  /\ call = [k \in Callers |-> NoCall]
  /\ logoutOp = "idle"
  /\ loginOp = "idle"
  /\ nextToken = 2

\* The tokens that the backend issues.
MaxToken == 3

\* The answer to a request as authFetch sees it: a response that is ok, one
\* with status 401, one with another status that is not ok, or a rejected
\* fetch.  The other requests of AuthContext.tsx look at response.ok only.
Statuses401 == {"ok", "401", "fail", "reject"}

\* AuthProvider has just been mounted on a protected route (lines 24-26),
\* with or without a token left in localStorage by an earlier session.
InitAuth ==
  /\ user = null
  /\ accessToken = null
  /\ loading = TRUE
  /\ tokenKey \in {null, 1}
  /\ route = "protected"
  /\ boot = "start"
  /\ call = [k \in Callers |-> NoCall]
  /\ logoutOp = "idle"
  /\ loginOp = "idle"
  /\ nextToken = 2
  /\ srvEvents = <<>>
  /\ srvGame = Game(0, 0)
  /\ srvStatus = "created"
  /\ nextId = 1
  /\ page = [c \in Clients |-> NewPage]
  /\ evtOp = [c \in Clients |-> NoEvtOp]
  /\ saveOp = [c \in Clients |-> NoSaveOp]
  /\ hist = [c \in Clients |-> NoHist]
  /\ srvLineup = <<>>
  /\ nextLineupId = 1
  /\ lineupOp = [c \in Clients |-> NoLineupOp]

\* The variables of the match and of its pages.
gameVars ==
  <<srvEvents, srvGame, srvStatus, nextId, page, evtOp, saveOp, hist,
    srvLineup, nextLineupId, lineupOp>>

\* ProtectedLayout, lines 19-27: the protected content is rendered.
ProtectedShown == route = "protected" /\ ~(loading \/ user = null)

\* bootstrap, lines 118-131, up to the first await.
BootstrapStart ==
  /\ boot = "start"
  /\ IF tokenKey = null
       THEN /\ loading' = FALSE
            /\ boot' = "done"
            /\ UNCHANGED accessToken
       ELSE /\ accessToken' = tokenKey
            /\ boot' = "me"
            /\ UNCHANGED loading
  /\ UNCHANGED <<user, tokenKey, route, call, logoutOp, loginOp, nextToken>>
  /\ UNCHANGED gameVars

\* bootstrap after loadMe(storedToken), lines 99-112 and 131-138.  A
\* rejected fetch makes loadMe throw: bootstrap ends there, its promise is
\* dropped by the void of line 141 and line 138 is not reached.
BootstrapMe(outcome) ==
  /\ boot = "me"
  /\ IF outcome = "ok"
       THEN user' = 1 /\ loading' = FALSE /\ boot' = "done"
       ELSE IF outcome = "fail"
         THEN boot' = "refresh" /\ UNCHANGED <<user, loading>>
         ELSE boot' = "crashed" /\ UNCHANGED <<user, loading>>
  /\ UNCHANGED <<accessToken, tokenKey, route, call, logoutOp, loginOp, nextToken>>
  /\ UNCHANGED gameVars

\* bootstrap after refreshAccess(), lines 47-61 and 133-138.
BootstrapRefresh(outcome) ==
  /\ boot = "refresh"
  /\ outcome = "ok" => nextToken <= MaxToken
  /\ IF outcome = "ok"
       THEN /\ accessToken' = nextToken /\ tokenKey' = nextToken /\ user' = 1
            /\ nextToken' = nextToken + 1
            /\ boot' = "me2"
            /\ UNCHANGED loading
       ELSE IF outcome = "fail"
         THEN /\ accessToken' = null /\ tokenKey' = null /\ user' = null
              /\ loading' = FALSE
              /\ boot' = "done"
              /\ UNCHANGED nextToken
         ELSE /\ boot' = "crashed"
              /\ UNCHANGED <<accessToken, tokenKey, user, loading, nextToken>>
  /\ UNCHANGED <<route, call, logoutOp, loginOp>>
  /\ UNCHANGED gameVars

\* bootstrap after loadMe(refreshed), lines 99-112 and 135-138.
BootstrapMe2(outcome) ==
  /\ boot = "me2"
  /\ IF outcome = "ok"
       THEN user' = 1 /\ loading' = FALSE /\ boot' = "done"
       ELSE IF outcome = "fail"
         THEN loading' = FALSE /\ boot' = "done" /\ UNCHANGED user
         ELSE boot' = "crashed" /\ UNCHANGED <<user, loading>>
  /\ UNCHANGED <<accessToken, tokenKey, route, call, logoutOp, loginOp, nextToken>>
  /\ UNCHANGED gameVars

\* ProtectedLayout, lines 13-17: the effect that leaves for /login.
Redirect ==
  /\ route = "protected"
  /\ ~loading /\ user = null
  /\ route' = "login"
  /\ UNCHANGED <<user, accessToken, loading, tokenKey, boot, call, logoutOp,
                 loginOp, nextToken>>
  /\ UNCHANGED gameVars

\* A variant of MayRetry that forgets the third argument of authFetch.
MayRetryAlways(c, status) == status = "401"

\* authFetch, line 77.
MayRetry(c, status) == status = "401" /\ c.retryOnUnauthorized

\* The caller goes on when its authFetch has returned or thrown.  logout
\* (lines 169-170) clears the session and leaves for /login when the call has
\* returned, and ends at line 168 when it has thrown.  u, t and k are the user,
\* the accessToken and the stored token as the call itself leaves them.
Ends(who, returned, u, t, k) ==
  IF who = "logout"
    THEN /\ logoutOp' = "idle"
         /\ IF returned
              THEN /\ user' = null /\ accessToken' = null /\ tokenKey' = null
                   /\ route' = "login"
              ELSE /\ user' = u /\ accessToken' = t /\ tokenKey' = k
                   /\ UNCHANGED route
    ELSE /\ user' = u /\ accessToken' = t /\ tokenKey' = k
         /\ UNCHANGED <<route, logoutOp>>

\* authFetch up to its first await, lines 66-75, called by a page that
\* ProtectedLayout renders.
AuthFetchCall ==
  /\ ProtectedShown
  /\ call["page"].pc \in {"idle", "returned", "thrown"}
  /\ call' = [call EXCEPT !["page"] =
       [NoCall EXCEPT !.pc = "first", !.token = accessToken, !.sent = 1]]
  /\ UNCHANGED <<user, accessToken, loading, tokenKey, route, boot, logoutOp,
                 loginOp, nextToken>>
  /\ UNCHANGED gameVars

\* logout up to its await, lines 167-168, from the button of AdminShell.
LogoutClick ==
  /\ ProtectedShown
  /\ logoutOp = "idle"
  /\ logoutOp' = "request"
  /\ call' = [call EXCEPT !["logout"] =
       [NoCall EXCEPT !.pc = "first", !.token = accessToken, !.sent = 1,
                      !.retryOnUnauthorized = FALSE]]
  /\ UNCHANGED <<user, accessToken, loading, tokenKey, route, boot, loginOp,
                 nextToken>>
  /\ UNCHANGED gameVars

\* authFetch after the first response, lines 77-92.
AuthFetchFirst(who, status) ==
  /\ call[who].pc = "first"
  /\ IF status = "reject"
       THEN /\ call' = [call EXCEPT ![who].pc = "thrown", ![who].first = status]
            /\ Ends(who, FALSE, user, accessToken, tokenKey)
       ELSE IF MayRetry(call[who], status)
         THEN /\ call' = [call EXCEPT ![who].pc = "refresh", ![who].first = status,
                                      ![who].refreshes = @ + 1]
              /\ UNCHANGED <<user, accessToken, tokenKey, route, logoutOp>>
         ELSE /\ call' = [call EXCEPT ![who].pc = "returned", ![who].first = status,
                                      ![who].result = status]
              /\ Ends(who, TRUE, user, accessToken, tokenKey)
  /\ UNCHANGED <<loading, boot, loginOp, nextToken>>
  /\ UNCHANGED gameVars

\* authFetch after refreshAccess(), lines 47-61 and 78-89.
AuthFetchRefresh(who, outcome) ==
  /\ call[who].pc = "refresh"
  /\ outcome = "ok" => nextToken <= MaxToken
  /\ IF outcome = "ok"
       THEN /\ call' = [call EXCEPT ![who].pc = "retry", ![who].sent = @ + 1,
                                    ![who].retryToken = nextToken]
            /\ user' = 1 /\ accessToken' = nextToken /\ tokenKey' = nextToken
            /\ nextToken' = nextToken + 1
            /\ UNCHANGED <<route, logoutOp>>
       ELSE IF outcome = "fail"
         THEN /\ call' = [call EXCEPT ![who].pc = "returned",
                                      ![who].result = call[who].first]
              /\ Ends(who, TRUE, null, null, null)
              /\ UNCHANGED nextToken
         ELSE /\ call' = [call EXCEPT ![who].pc = "thrown"]
              /\ Ends(who, FALSE, user, accessToken, tokenKey)
              /\ UNCHANGED nextToken
  /\ UNCHANGED <<loading, boot, loginOp>>
  /\ UNCHANGED gameVars

\* authFetch after the second response, lines 85-89.
AuthFetchRetry(who, status) ==
  /\ call[who].pc = "retry"
  /\ IF status = "reject"
       THEN /\ call' = [call EXCEPT ![who].pc = "thrown"]
            /\ Ends(who, FALSE, user, accessToken, tokenKey)
       ELSE /\ call' = [call EXCEPT ![who].pc = "returned", ![who].result = status]
            /\ Ends(who, TRUE, user, accessToken, tokenKey)
  /\ UNCHANGED <<loading, boot, loginOp, nextToken>>
  /\ UNCHANGED gameVars

\* login up to its await, lines 145-153, from the form of the login page.
LoginSubmit ==
  /\ route = "login"
  /\ loginOp = "idle"
  /\ loginOp' = "request"
  /\ UNCHANGED <<user, accessToken, loading, tokenKey, route, boot, call,
                 logoutOp, nextToken>>
  /\ UNCHANGED gameVars

\* login after the response, lines 155-162.
LoginAnswered(outcome) ==
  /\ loginOp = "request"
  /\ outcome = "ok" => nextToken <= MaxToken
  /\ loginOp' = "idle"
  /\ IF outcome = "ok"
       THEN /\ accessToken' = nextToken /\ tokenKey' = nextToken /\ user' = 1
            /\ nextToken' = nextToken + 1
            /\ route' = "protected"
       ELSE UNCHANGED <<accessToken, tokenKey, user, nextToken, route>>
  /\ UNCHANGED <<loading, boot, call, logoutOp>>
  /\ UNCHANGED gameVars

\* The steps of bootstrap.
Bootstrap ==
  \/ BootstrapStart
  \/ \E o \in Outcomes : BootstrapMe(o)
  \/ \E o \in Outcomes : BootstrapRefresh(o)
  \/ \E o \in Outcomes : BootstrapMe2(o)

\* AuthProvider with the login page, ProtectedLayout and AdminShell.
NextAuth ==
  \/ Bootstrap
  \/ Redirect
  \/ AuthFetchCall
  \/ LogoutClick
  \/ \E who \in Callers, s \in Statuses401 : AuthFetchFirst(who, s)
  \/ \E who \in Callers, o \in Outcomes : AuthFetchRefresh(who, o)
  \/ \E who \in Callers, s \in Statuses401 : AuthFetchRetry(who, s)
  \/ LoginSubmit
  \/ \E o \in Outcomes : LoginAnswered(o)

SpecAuth == InitAuth /\ [][NextAuth]_vars

\* Every request of bootstrap is answered or rejected, and the effect of
\* ProtectedLayout runs when its condition holds.
SpecAuthLive == SpecAuth /\ WF_vars(Bootstrap) /\ WF_vars(Redirect)

\* A match that has just been created, and the pages that open on it.
Init ==
  /\ srvEvents = <<>>
  /\ srvGame = Game(0, 0)
  /\ srvStatus = "created"
  /\ nextId = 1
  /\ page = [c \in Clients |-> NewPage]
  /\ evtOp = [c \in Clients |-> NoEvtOp]
  /\ saveOp = [c \in Clients |-> NoSaveOp]
  /\ hist = [c \in Clients |-> NoHist]
  /\ srvLineup = <<>>
  /\ nextLineupId = 1
  /\ lineupOp = [c \in Clients |-> NoLineupOp]
  /\ SignedIn

\* fetchGame, lines 201-202: a stored penalty score as the text of its input.
PenaltyText(score) == IF score # null THEN String(score) ELSE ""

\* saveGame, lines 312-313: the text of a penalty input as the body's value.
PenaltyScore(text) == IF text # "" THEN Number(text) ELSE null

\* ------------------------------------------------------------ fetches
\* fetchGame after its await, lines 195-212.  setGame gives the effect of
\* lines 278-293 a new game, so the roster of the add-lineup form is loaded
\* again: playersLoad is the side whose roster is being loaded.
FetchGameDone(c, outcome) ==
  /\ page[c].gameLoading
  /\ page' = [page EXCEPT ![c] =
       [@ EXCEPT !.gameLoading = FALSE,
                 !.game = IF outcome = "ok" THEN srvGame ELSE @,
                 !.status = IF outcome = "ok" THEN srvStatus ELSE @,
                 !.editHomePenalty =
                    IF outcome = "ok" THEN PenaltyText(srvGame.home_penalty_score) ELSE @,
                 !.editAwayPenalty =
                    IF outcome = "ok" THEN PenaltyText(srvGame.away_penalty_score) ELSE @,
                 !.editSyncDisabled =
                    IF outcome = "ok" THEN srvGame.sync_disabled ELSE @,
                 !.playersLoad = IF outcome = "ok" THEN page[c].addLineupTeam ELSE @,
                 !.gameError = IF outcome = "ok" THEN @ ELSE TRUE]]
  /\ UNCHANGED <<srvEvents, srvGame, srvStatus, nextId, evtOp, saveOp, hist>>
  /\ UNCHANGED lineupVars
  /\ UNCHANGED authVars

\* fetchEvents after its await, lines 236-242.
FetchEventsDone(c, outcome) ==
  /\ page[c].eventsLoading
  /\ page' = [page EXCEPT ![c] =
       [@ EXCEPT !.eventsLoading = FALSE,
                 !.events = IF outcome = "ok" THEN srvEvents ELSE @]]
  /\ UNCHANGED <<srvEvents, srvGame, srvStatus, nextId, evtOp, saveOp, hist>>
  /\ UNCHANGED lineupVars
  /\ UNCHANGED authVars

\* ------------------------------------------------------------ the lineup
\* addLineup and deleteLineup; syncLineup follows syncEvents below.
\* fetchLineup up to its await, lines 216-220; lineupLoading as gameLoading.
FetchLineupStarted(p) == [p EXCEPT !.lineupLoading = TRUE]

\* fetchLineup after its await, lines 221-227.
FetchLineupDone(c, outcome) ==
  /\ page[c].lineupLoading
  /\ page' = [page EXCEPT ![c] =
       [@ EXCEPT !.lineupLoading = FALSE,
                 !.lineup = IF outcome = "ok" THEN srvLineup ELSE @]]
  /\ UNCHANGED <<srvEvents, srvGame, srvStatus, nextId, evtOp, saveOp, hist>>
  /\ UNCHANGED lineupVars
  /\ UNCHANGED authVars

\* The Team select of the add-lineup form, line 814, and the effect of lines
\* 278-282 that the new addLineupTeam starts.
SetAddLineupTeam(c, side) ==
  /\ PageShown(c)
  /\ side # page[c].addLineupTeam
  /\ page' = [page EXCEPT ![c].addLineupTeam = side, ![c].playersLoad = side]
  /\ UNCHANGED <<srvEvents, srvGame, srvStatus, nextId, evtOp, saveOp, hist>>
  /\ UNCHANGED lineupVars
  /\ UNCHANGED authVars

\* The effect of lines 278-293 after the roster has arrived: the options of
\* the Player combobox are the roster asked for and the selection is
\* cleared.
PlayersLoaded(c) ==
  /\ page[c].playersLoad # ""
  /\ page' = [page EXCEPT ![c].addLineupPlayers = page[c].playersLoad,
                          ![c].addLineupPlayer = "",
                          ![c].playersLoad = ""]
  /\ UNCHANGED <<srvEvents, srvGame, srvStatus, nextId, evtOp, saveOp, hist>>
  /\ UNCHANGED lineupVars
  /\ UNCHANGED authVars

\* The Player combobox of the add-lineup form, lines 822-836: its options
\* are the loaded roster, whatever the lineup already holds.
AddLineupPlayerOptions(p) ==
  {""} \cup (IF p.addLineupPlayers = "" THEN {}
             ELSE {String(n) : n \in RosterOf(p.addLineupPlayers)})

SelectAddLineupPlayer(c, id) ==
  /\ PageShown(c)
  /\ id \in AddLineupPlayerOptions(page[c])
  /\ id # page[c].addLineupPlayer
  /\ page' = [page EXCEPT ![c].addLineupPlayer = id]
  /\ UNCHANGED <<srvEvents, srvGame, srvStatus, nextId, evtOp, saveOp, hist>>
  /\ UNCHANGED lineupVars
  /\ UNCHANGED authVars

\* addLineup up to the POST, lines 370-388 (button at 875).  The type select
\* and the Captain checkbox hold what the operator set before the click.
AddLineupClick(c, addLineupType, addLineupCaptain) ==
  /\ PageShown(c)
  /\ ~page[c].lineupBusy
  /\ page[c].addLineupPlayer # ""
  /\ nextLineupId
       + Cardinality({d \in Clients : lineupOp[d].kind = "addLineup"})
       <= MaxLineupId
  /\ page' = [page EXCEPT ![c].lineupBusy = TRUE]
  /\ lineupOp' = [lineupOp EXCEPT ![c] =
       [NoLineupOp EXCEPT !.kind = "addLineup",
                          !.player_id = Number(page[c].addLineupPlayer),
                          !.team_id = IF page[c].addLineupTeam = "home"
                                        THEN home_team_id ELSE away_team_id,
                          !.lineup_type = addLineupType,
                          !.is_captain = addLineupCaptain]]
  /\ UNCHANGED <<srvEvents, srvGame, srvStatus, nextId, evtOp, saveOp, hist>>
  /\ UNCHANGED authVars
  /\ UNCHANGED <<srvLineup, nextLineupId>>

\* addLineup after the POST, lines 389-401.
AddLineupPost(c, outcome) ==
  /\ lineupOp[c].kind = "addLineup"
  /\ IF outcome = "ok"
       THEN /\ srvLineup' = Append(srvLineup,
                 LineupRow(nextLineupId, lineupOp[c].player_id,
                           lineupOp[c].team_id, lineupOp[c].lineup_type,
                           lineupOp[c].is_captain))
            /\ nextLineupId' = nextLineupId + 1
            /\ page' = [page EXCEPT ![c] =
                 [FetchLineupStarted(@) EXCEPT !.addLineupPlayer = "",
                                               !.lineupBusy = FALSE]]
       ELSE /\ page' = [page EXCEPT ![c].lineupBusy = FALSE]
            /\ UNCHANGED <<srvLineup, nextLineupId>>
  /\ lineupOp' = [lineupOp EXCEPT ![c] = NoLineupOp]
  /\ UNCHANGED <<srvEvents, srvGame, srvStatus, nextId, evtOp, saveOp, hist>>
  /\ UNCHANGED authVars

\* deleteLineup up to the DELETE, lines 356-359 (buttons at 765-770 and
\* 785-790, in the table that is hidden while lineupLoading).
DeleteLineupClick(c, lineupId) ==
  /\ PageShown(c)
  /\ ~page[c].lineupLoading
  /\ ~page[c].lineupBusy
  /\ \E e \in Range(page[c].lineup) : e.id = lineupId
  /\ page' = [page EXCEPT ![c].lineupBusy = TRUE]
  /\ lineupOp' = [lineupOp EXCEPT ![c] =
       [NoLineupOp EXCEPT !.kind = "deleteLineup", !.lineupId = lineupId]]
  /\ UNCHANGED <<srvEvents, srvGame, srvStatus, nextId, evtOp, saveOp, hist>>
  /\ UNCHANGED authVars
  /\ UNCHANGED <<srvLineup, nextLineupId>>

\* deleteLineup after the DELETE, lines 360-366.  The backend answers ok only
\* for an entry it still has.
DeleteLineupDelete(c, outcome) ==
  /\ lineupOp[c].kind = "deleteLineup"
  /\ outcome = "ok" => \E e \in Range(srvLineup) : e.id = lineupOp[c].lineupId
  /\ IF outcome = "ok"
       THEN /\ srvLineup' =
                 SelectSeq(srvLineup, LAMBDA e : e.id # lineupOp[c].lineupId)
            /\ page' = [page EXCEPT ![c] =
                 [FetchLineupStarted(@) EXCEPT !.lineupBusy = FALSE]]
       ELSE /\ page' = [page EXCEPT ![c].lineupBusy = FALSE]
            /\ UNCHANGED srvLineup
  /\ lineupOp' = [lineupOp EXCEPT ![c] = NoLineupOp]
  /\ UNCHANGED <<srvEvents, srvGame, srvStatus, nextId, evtOp, saveOp, hist>>
  /\ UNCHANGED authVars
  /\ UNCHANGED nextLineupId

\* ------------------------------------------------------------ addEvent
\* addEvent up to the POST, lines 487-516, with the values of the form as
\* the render of the click holds them.  With an empty minute the handler
\* returns at line 490: it only shows a message and sends nothing.
AddEvent(c, addEvtType, addEvtTeam, addEvtHalf, addEvtMinute, addEvtPlayerId, addEvtPlayer2Id, addEvtAssistId) ==
  /\ PageShown(c)
  /\ ~page[c].eventsBusy
  /\ IF addEvtMinute = ""
       THEN /\ page' = [page EXCEPT ![c].addEvtMsg = NoMinuteMsg]
            /\ UNCHANGED <<evtOp, hist>>
       ELSE
         /\ nextId + PostsInFlight <= MaxEventId
         /\ page' = [page EXCEPT ![c].eventsBusy = TRUE, ![c].addEvtMsg = ""]
         /\ evtOp' = [evtOp EXCEPT ![c] =
              [NoEvtOp EXCEPT !.kind = "addEvent", !.pc = "post",
                              !.type = addEvtType, !.team = addEvtTeam,
                              !.half = Number(addEvtHalf),
                              !.minute = Number(addEvtMinute),
                              !.player_id = FindInLineup(page[c].lineup, addEvtPlayerId),
                              !.player2_id = FindInLineup(page[c].lineup, addEvtPlayer2Id),
                              !.assist_player_id =
                                 FindInLineup(page[c].lineup, addEvtAssistId),
                              !.scoring = addEvtType \in SCORE_EVENT_TYPES,
                              !.home = AddScore(addEvtType, addEvtTeam, page[c].game)[1],
                              !.away = AddScore(addEvtType, addEvtTeam, page[c].game)[2]]]
         /\ hist' = [hist EXCEPT ![c] =
              [phase |-> "adding", id |-> 0, type |-> addEvtType, team |-> addEvtTeam,
               pre |-> Score(srvGame),
               consistent |-> /\ Score(srvGame) = LedgerScore(srvEvents)
                              /\ page[c].game = srvGame
                              /\ page[c].events = srvEvents]]
  /\ UNCHANGED <<srvEvents, srvGame, srvStatus, nextId, saveOp>>
  /\ UNCHANGED lineupVars
  /\ UNCHANGED authVars

\* addEvent by an operator who fills in the half, the minute, the type and
\* the team and selects no participant (button at 1107).
AddEventClick(c, addEvtType, addEvtTeam) ==
  AddEvent(c, addEvtType, addEvtTeam, "1", "45", "", "", "")

\* addEvent, lines 519-523: the form after an accepted POST.
AddEvtFormReset(p) ==
  [p EXCEPT !.addEvtPlayerId = "", !.addEvtPlayer2Id = "",
            !.addEvtAssistId = "", !.addEvtMinute = "", !.addEvtTeam = ""]

\* await authFetch(...) followed by await parseJsonOrThrow(res): the fetch is
\* rejected, or parseJsonOrThrow (http.ts lines 19-22, 59) throws for a
\* response that is not ok.
ThrowsOnRejectOnly(outcome) == outcome = "reject"

Throws(outcome) == outcome # "ok"

\* addEvent from the POST's answer to the next await or the end, lines
\* 517-542.  The backend stores the event when it answers ok.
AddEventPost(c, outcome) ==
  /\ evtOp[c].kind = "addEvent" /\ evtOp[c].pc = "post"
  /\ IF outcome = "ok"
       THEN /\ srvEvents' = Append(srvEvents,
                 EventRow(nextId, evtOp[c].type, TeamIdOf(evtOp[c].team),
                          evtOp[c].half, evtOp[c].minute, evtOp[c].player_id,
                          evtOp[c].player2_id, evtOp[c].assist_player_id))
            /\ nextId' = nextId + 1
       ELSE UNCHANGED <<srvEvents, nextId>>
  /\ IF ~Throws(outcome)
       THEN /\ hist' = [d \in Clients |->
                 IF d # c \/ hist[c].phase # "adding" THEN NoHist
                 ELSE [hist[c] EXCEPT !.id = nextId,
                         !.phase = IF evtOp[c].scoring THEN "adding" ELSE "added"]]
            /\ IF evtOp[c].scoring
                 THEN /\ evtOp' = [evtOp EXCEPT ![c].pc = "patch"]
                      /\ page' = [page EXCEPT ![c] =
                           [AddEvtFormReset(@) EXCEPT !.addEvtMsg = AddedMsg]]
                 ELSE /\ evtOp' = [evtOp EXCEPT ![c] = NoEvtOp]
                      /\ page' = [page EXCEPT ![c] =
                           [FetchEventsStarted(AddEvtFormReset(@))
                              EXCEPT !.eventsBusy = FALSE,
                                     !.addEvtMsg = AddedMsg]]
       ELSE /\ evtOp' = [evtOp EXCEPT ![c] = NoEvtOp]
            /\ page' = [page EXCEPT ![c].eventsBusy = FALSE,
                                    ![c].addEvtMsg = ErrMsg]
            /\ hist' = [hist EXCEPT ![c] = NoHist]
  /\ UNCHANGED <<srvGame, srvStatus, saveOp>>
  /\ UNCHANGED lineupVars
  /\ UNCHANGED authVars

\* patchScore and the rest of the handler that called it: lines 546-553,
\* then 537-542 (addEvent) or 478-483 (deleteEvent).  The response of the
\* PATCH is not looked at; only a rejected fetch skips the refresh.
PatchScoreDone(c, outcome) ==
  /\ srvGame' = IF outcome = "ok"
                  THEN ScorePatched(srvGame, evtOp[c].home, evtOp[c].away)
                  ELSE srvGame
  /\ evtOp' = [evtOp EXCEPT ![c] = NoEvtOp]
  /\ page' = [page EXCEPT ![c] =
       IF outcome = "reject"
         THEN [@ EXCEPT !.eventsBusy = FALSE,
                        !.addEvtMsg = IF evtOp[c].kind = "addEvent"
                                        THEN ErrMsg ELSE @]
         ELSE [FetchEventsStarted(FetchGameStarted(@)) EXCEPT !.eventsBusy = FALSE]]

AddEventPatch(c, outcome) ==
  /\ evtOp[c].kind = "addEvent" /\ evtOp[c].pc = "patch"
  /\ PatchScoreDone(c, outcome)
  /\ hist' = [d \in Clients |->
       IF d # c THEN (IF outcome = "ok" THEN NoHist ELSE hist[d])
       ELSE IF outcome = "ok" /\ hist[c].phase = "adding"
         THEN [hist[c] EXCEPT !.phase = "added"]
         ELSE NoHist]
  /\ UNCHANGED <<srvEvents, srvStatus, nextId, saveOp>>
  /\ UNCHANGED lineupVars
  /\ UNCHANGED authVars

\* ------------------------------------------------------ the add-event form
\* EVENT_CONFIG, lines 102-118: where the first participant is chosen from,
\* and which of the other two comboboxes are shown.
PlayerFrom(type) ==
  CASE type = "own_goal" -> "opposite"
    [] type = "substitution" -> "starters"
    [] OTHER -> "team"

ShowPlayer2(type) == type = "substitution"
ShowAssist(type) == type = "goal"

\* Line 583: evtOppositeTeamId.
OppositeTeamIdOf(addEvtTeam) ==
  IF addEvtTeam = "home" THEN away_team_id
  ELSE IF addEvtTeam = "away" THEN home_team_id ELSE no_team_id

\* A variant of lineupOptions that lists the entries of every lineup type.
LineupOptionsAnyType(lineup, teamId, onlyType) ==
  {""} \cup {String(e.player_id) : e \in {x \in Range(lineup) : x.team_id = teamId}}

\* lineupOptions, lines 585-596: the values of the options.
LineupOptions(lineup, teamId, onlyType) ==
  {""} \cup {String(e.player_id) :
               e \in {x \in Range(lineup) :
                        /\ x.team_id = teamId
                        /\ onlyType = "" \/ x.lineup_type = onlyType}}

\* Lines 610-617: the options of the three participant comboboxes.
PlayerOptions(p) ==
  IF PlayerFrom(p.addEvtType) = "opposite"
    THEN LineupOptions(p.lineup, OppositeTeamIdOf(p.addEvtTeam), "")
  ELSE IF PlayerFrom(p.addEvtType) = "starters"
    THEN LineupOptions(p.lineup, TeamIdOf(p.addEvtTeam), "starter")
  ELSE LineupOptions(p.lineup, TeamIdOf(p.addEvtTeam), "")

Player2Options(p) == LineupOptions(p.lineup, TeamIdOf(p.addEvtTeam), "substitute")
AssistOptions(p) == LineupOptions(p.lineup, TeamIdOf(p.addEvtTeam), "")

\* The Half select, lines 1044-1047, and the Minute input, line 1051.
HalfOptions == {"1", "2"}
MinuteTexts == {"", "-1", "45"}

SetAddEvtHalf(c, half) ==
  /\ PageShown(c)
  /\ half # page[c].addEvtHalf
  /\ page' = [page EXCEPT ![c].addEvtHalf = half]
  /\ UNCHANGED <<srvEvents, srvGame, srvStatus, nextId, evtOp, saveOp, hist>>
  /\ UNCHANGED lineupVars
  /\ UNCHANGED authVars

SetAddEvtMinute(c, minute) ==
  /\ PageShown(c)
  /\ minute # page[c].addEvtMinute
  /\ page' = [page EXCEPT ![c].addEvtMinute = minute]
  /\ UNCHANGED <<srvEvents, srvGame, srvStatus, nextId, evtOp, saveOp, hist>>
  /\ UNCHANGED lineupVars
  /\ UNCHANGED authVars

\* The Type select, line 1055, and the effect of lines 296-300 that the new
\* addEvtType starts.
SetAddEvtType(c, type) ==
  /\ PageShown(c)
  /\ type # page[c].addEvtType
  /\ page' = [page EXCEPT ![c].addEvtType = type,
                          ![c].addEvtPlayerId = "",
                          ![c].addEvtPlayer2Id = "",
                          ![c].addEvtAssistId = ""]
  /\ UNCHANGED <<srvEvents, srvGame, srvStatus, nextId, evtOp, saveOp, hist>>
  /\ UNCHANGED lineupVars
  /\ UNCHANGED authVars

\* The Team select, lines 1061-1066.
SetAddEvtTeam(c, team) ==
  /\ PageShown(c)
  /\ team # page[c].addEvtTeam
  /\ page' = [page EXCEPT ![c].addEvtTeam = team,
                          ![c].addEvtPlayerId = "",
                          ![c].addEvtPlayer2Id = "",
                          ![c].addEvtAssistId = ""]
  /\ UNCHANGED <<srvEvents, srvGame, srvStatus, nextId, evtOp, saveOp, hist>>
  /\ UNCHANGED lineupVars
  /\ UNCHANGED authVars

\* A variant of SideOfPlayer that leaves the Team select as it is.
SideKept(p, id) == p.addEvtTeam

\* handlePlayerSelect, lines 600-606: the side that the Team select takes
\* when a participant is selected.
SideOfPlayer(p, id) ==
  IF id # "" /\ Matches(p.lineup, id) # {}
    THEN (IF Find(p.lineup, id).team_id = home_team_id THEN "home" ELSE "away")
    ELSE p.addEvtTeam

\* handlePlayerSelect, lines 598-608, called by the first participant
\* combobox (line 1078) with the value of one of its options.
HandlePlayerSelect(c, id) ==
  /\ PageShown(c)
  /\ id \in PlayerOptions(page[c])
  /\ page' = [page EXCEPT ![c].addEvtPlayerId = id,
                          ![c].addEvtTeam = SideOfPlayer(page[c], id),
                          ![c].addEvtAssistId = ""]
  /\ UNCHANGED <<srvEvents, srvGame, srvStatus, nextId, evtOp, saveOp, hist>>
  /\ UNCHANGED lineupVars
  /\ UNCHANGED authVars

\* The second participant combobox, lines 1082-1092.
SetAddEvtPlayer2Id(c, id) ==
  /\ PageShown(c)
  /\ ShowPlayer2(page[c].addEvtType)
  /\ id \in Player2Options(page[c])
  /\ id # page[c].addEvtPlayer2Id
  /\ page' = [page EXCEPT ![c].addEvtPlayer2Id = id]
  /\ UNCHANGED <<srvEvents, srvGame, srvStatus, nextId, evtOp, saveOp, hist>>
  /\ UNCHANGED lineupVars
  /\ UNCHANGED authVars

\* The assist combobox, lines 1094-1104.
SetAddEvtAssistId(c, id) ==
  /\ PageShown(c)
  /\ ShowAssist(page[c].addEvtType)
  /\ id \in AssistOptions(page[c])
  /\ id # page[c].addEvtAssistId
  /\ page' = [page EXCEPT ![c].addEvtAssistId = id]
  /\ UNCHANGED <<srvEvents, srvGame, srvStatus, nextId, evtOp, saveOp, hist>>
  /\ UNCHANGED lineupVars
  /\ UNCHANGED authVars

\* addEvent started with the form as the page holds it (button at 1107).
AddEventFormClick(c) ==
  AddEvent(c, page[c].addEvtType, page[c].addEvtTeam, page[c].addEvtHalf,
           page[c].addEvtMinute, page[c].addEvtPlayerId,
           page[c].addEvtPlayer2Id, page[c].addEvtAssistId)

\* ---------------------------------------------------------- deleteEvent
\* deleteEvent up to the DELETE, lines 458-462.  The Del button belongs to a
\* row of the events table, which is not rendered while events are loading
\* (line 988).
DeleteEventClick(c, eventId) ==
  /\ PageShown(c)
  /\ ~page[c].eventsBusy
  /\ ~page[c].eventsLoading
  /\ Found(page[c].events, eventId)
  /\ page' = [page EXCEPT ![c].eventsBusy = TRUE]
  /\ evtOp' = [evtOp EXCEPT ![c] =
       [NoEvtOp EXCEPT !.kind = "deleteEvent", !.pc = "delete",
                       !.eventId = eventId,
                       !.type = EventOf(page[c].events, eventId).event_type,
                       !.scoring = EventOf(page[c].events, eventId).event_type
                                     \in SCORE_EVENT_TYPES,
                       !.home = FoldScore(Remaining(page[c].events, eventId))[1],
                       !.away = FoldScore(Remaining(page[c].events, eventId))[2]]]
  /\ hist' = [hist EXCEPT ![c] =
       IF @.phase = "added" /\ @.id = eventId
         THEN [@ EXCEPT !.phase = "deleting"] ELSE NoHist]
  /\ UNCHANGED <<srvEvents, srvGame, srvStatus, nextId, saveOp>>
  /\ UNCHANGED lineupVars
  /\ UNCHANGED authVars

\* deleteEvent from the DELETE's answer to the next await or the end, lines
\* 463-483.  The backend answers ok only for an event it still has.
DeleteEventDelete(c, outcome) ==
  /\ evtOp[c].kind = "deleteEvent" /\ evtOp[c].pc = "delete"
  /\ outcome = "ok" => Found(srvEvents, evtOp[c].eventId)
  /\ IF outcome = "ok"
       THEN /\ srvEvents' = Remaining(srvEvents, evtOp[c].eventId)
            /\ hist' = [d \in Clients |->
                 IF d # c \/ hist[c].phase # "deleting" THEN NoHist
                 ELSE [hist[c] EXCEPT
                         !.phase = IF evtOp[c].scoring THEN "deleting" ELSE "done"]]
            /\ IF evtOp[c].scoring
                 THEN /\ evtOp' = [evtOp EXCEPT ![c].pc = "patch"]
                      /\ page' = page
                 ELSE /\ evtOp' = [evtOp EXCEPT ![c] = NoEvtOp]
                      /\ page' = [page EXCEPT ![c] =
                           [FetchEventsStarted(@) EXCEPT !.eventsBusy = FALSE]]
       ELSE /\ evtOp' = [evtOp EXCEPT ![c] = NoEvtOp]
            /\ page' = [page EXCEPT ![c].eventsBusy = FALSE]
            /\ hist' = [hist EXCEPT ![c] = NoHist]
            /\ UNCHANGED srvEvents
  /\ UNCHANGED <<srvGame, srvStatus, nextId, saveOp>>
  /\ UNCHANGED lineupVars
  /\ UNCHANGED authVars

DeleteEventPatch(c, outcome) ==
  /\ evtOp[c].kind = "deleteEvent" /\ evtOp[c].pc = "patch"
  /\ PatchScoreDone(c, outcome)
  /\ hist' = [d \in Clients |->
       IF d # c THEN (IF outcome = "ok" THEN NoHist ELSE hist[d])
       ELSE IF outcome = "ok" /\ hist[c].phase = "deleting"
         THEN [hist[c] EXCEPT !.phase = "done"]
         ELSE NoHist]
  /\ UNCHANGED <<srvEvents, srvStatus, nextId, saveOp>>
  /\ UNCHANGED lineupVars
  /\ UNCHANGED authVars


\* ------------------------------------------------- saveGame, resetStatus
\* What the operators type into the Home Score / Away Score inputs.  An
\* empty input (sent as null) is not followed: the stored scores are numbers.
EditScores == 0..MaxScore

\* saveGame up to the PATCH, lines 303-324.  The edit form is free operator
\* input, so the values sent are parameters of the click.
SaveGameClick(c, editHomeScore, editAwayScore, editStatus) ==
  /\ PageShown(c)
  /\ ~page[c].saveLoading
  /\ page' = [page EXCEPT ![c].saveLoading = TRUE]
  /\ saveOp' = [saveOp EXCEPT ![c] =
       [kind |-> "saveGame", home |-> editHomeScore, away |-> editAwayScore,
        status |-> editStatus,
        home_penalty_score |-> PenaltyScore(page[c].editHomePenalty),
        away_penalty_score |-> PenaltyScore(page[c].editAwayPenalty),
        sync_disabled |-> page[c].editSyncDisabled]]
  /\ UNCHANGED <<srvEvents, srvGame, srvStatus, nextId, evtOp, hist>>
  /\ UNCHANGED lineupVars
  /\ UNCHANGED authVars

\* The Home Penalty input (line 680) and the 'Disable SOTA sync' checkbox
\* (line 663) of the game form.  The Away Penalty input is left as loaded.
PenaltyTexts == {"", "1"}

SetEditHomePenalty(c, text) ==
  /\ PageShown(c)
  /\ page[c].editHomePenalty # text
  /\ page' = [page EXCEPT ![c].editHomePenalty = text]
  /\ UNCHANGED <<srvEvents, srvGame, srvStatus, nextId, evtOp, saveOp, hist>>
  /\ UNCHANGED lineupVars
  /\ UNCHANGED authVars

SetEditSyncDisabled(c, checked) ==
  /\ PageShown(c)
  /\ page[c].editSyncDisabled # checked
  /\ page' = [page EXCEPT ![c].editSyncDisabled = checked]
  /\ UNCHANGED <<srvEvents, srvGame, srvStatus, nextId, evtOp, saveOp, hist>>
  /\ UNCHANGED lineupVars
  /\ UNCHANGED authVars

\* A variant of BodyStatus that sends the status of a running match.
BodyStatusLive(op) == "live"

\* saveGame, line 314: the status of the PATCH body is the form's editStatus.
BodyStatus(op) == op.status

\* saveGame after the PATCH, lines 325-332.
SaveGamePatch(c, outcome) ==
  /\ saveOp[c].kind = "saveGame"
  /\ srvGame' = IF outcome = "ok"
                  THEN GamePatched(srvGame, saveOp[c])
                  ELSE srvGame
  /\ srvStatus' = IF outcome = "ok" THEN BodyStatus(saveOp[c]) ELSE srvStatus
  /\ page' = [page EXCEPT ![c] =
       IF outcome = "ok"
         THEN [FetchGameStarted(@) EXCEPT !.saveLoading = FALSE]
         ELSE [@ EXCEPT !.saveLoading = FALSE]]
  /\ saveOp' = [saveOp EXCEPT ![c] = NoSaveOp]
  /\ hist' = IF outcome = "ok" THEN NoPairs ELSE hist
  /\ UNCHANGED <<srvEvents, nextId, evtOp>>
  /\ UNCHANGED lineupVars
  /\ UNCHANGED authVars

\* resetStatus up to the PATCH, lines 336-344.
ResetStatusClick(c) ==
  /\ PageShown(c)
  /\ ~page[c].saveLoading
  /\ page' = [page EXCEPT ![c].saveLoading = TRUE]
  /\ saveOp' = [saveOp EXCEPT ![c] = [NoSaveOp EXCEPT !.kind = "resetStatus"]]
  /\ UNCHANGED <<srvEvents, srvGame, srvStatus, nextId, evtOp, hist>>
  /\ UNCHANGED lineupVars
  /\ UNCHANGED authVars

\* A variant of ResetBody that sends the status of a running match.
ResetBodyLive == "live"

\* resetStatus, line 343: the PATCH body is {status: 'created'}.
ResetBody == "created"

\* resetStatus after the PATCH, lines 345-352.
ResetStatusPatch(c, outcome) ==
  /\ saveOp[c].kind = "resetStatus"
  /\ srvStatus' = IF outcome = "ok" THEN ResetBody ELSE srvStatus
  /\ page' = [page EXCEPT ![c] =
       IF outcome = "ok"
         THEN [FetchGameStarted(@) EXCEPT !.saveLoading = FALSE]
         ELSE [@ EXCEPT !.saveLoading = FALSE]]
  /\ saveOp' = [saveOp EXCEPT ![c] = NoSaveOp]
  /\ hist' = IF outcome = "ok" THEN NoPairs ELSE hist
  /\ UNCHANGED <<srvEvents, srvGame, nextId, evtOp>>
  /\ UNCHANGED lineupVars
  /\ UNCHANGED authVars

\* ------------------------------------------------------------ syncEvents
\* Lines 728 and 976: what disables the Sync buttons besides the busy flag
\* of their section.
SyncDisabled(p) == p.editSyncDisabled

\* syncEvents up to the POST, lines 556-559, from the Sync Events button
\* (lines 973-979).
SyncEventsClick(c) ==
  /\ PageShown(c)
  /\ ~page[c].eventsBusy
  /\ ~SyncDisabled(page[c])
  /\ page' = [page EXCEPT ![c].eventsBusy = TRUE]
  /\ evtOp' = [evtOp EXCEPT ![c] =
       [NoEvtOp EXCEPT !.kind = "syncEvents", !.pc = "post"]]
  /\ hist' = [hist EXCEPT ![c] = NoHist]
  /\ UNCHANGED <<srvEvents, srvGame, srvStatus, nextId, saveOp>>
  /\ UNCHANGED lineupVars
  /\ UNCHANGED authVars

\* What one sync pass brings from the feed: nothing, or one event of a team.
Feed(types) ==
  {<<>>} \cup
  (IF nextId + PostsInFlight <= MaxEventId
     THEN {<<Event(nextId, t, tm)>> :
             t \in types, tm \in {home_team_id, away_team_id}}
     ELSE {})

\* syncEvents after the POST, lines 560-566: the sync pass has changed the
\* ledger; the page writes no score and does not reload the game.
SyncEventsPost(c, outcome, feed) ==
  /\ evtOp[c].kind = "syncEvents" /\ evtOp[c].pc = "post"
  /\ IF outcome = "ok"
       THEN /\ srvEvents' = srvEvents \o feed
            /\ nextId' = nextId + Len(feed)
            /\ page' = [page EXCEPT ![c] =
                 [FetchEventsStarted(@) EXCEPT !.eventsBusy = FALSE]]
            /\ hist' = NoPairs
       ELSE /\ page' = [page EXCEPT ![c].eventsBusy = FALSE]
            /\ UNCHANGED <<srvEvents, nextId, hist>>
  /\ evtOp' = [evtOp EXCEPT ![c] = NoEvtOp]
  /\ UNCHANGED <<srvGame, srvStatus, saveOp>>
  /\ UNCHANGED lineupVars
  /\ UNCHANGED authVars

\* ------------------------------------------------------------ syncLineup
\* syncLineup up to the POST, lines 405-407, from the Sync Lineup button
\* (lines 725-731).
SyncLineupClick(c) ==
  /\ PageShown(c)
  /\ ~page[c].lineupBusy
  /\ ~SyncDisabled(page[c])
  /\ page' = [page EXCEPT ![c].lineupBusy = TRUE]
  /\ lineupOp' = [lineupOp EXCEPT ![c] = [NoLineupOp EXCEPT !.kind = "syncLineup"]]
  /\ UNCHANGED <<srvEvents, srvGame, srvStatus, nextId, evtOp, saveOp, hist>>
  /\ UNCHANGED authVars
  /\ UNCHANGED <<srvLineup, nextLineupId>>

\* What one sync pass brings to the lineup: nothing, or one starter of the
\* home team.
LineupFeed ==
  {<<>>} \cup
  (IF nextLineupId <= MaxLineupId
     THEN {<<LineupRow(nextLineupId, 1, home_team_id, "starter", FALSE)>>}
     ELSE {})

\* syncLineup after the POST, lines 408-415.
SyncLineupPost(c, outcome, feed) ==
  /\ lineupOp[c].kind = "syncLineup"
  /\ IF outcome = "ok"
       THEN /\ srvLineup' = srvLineup \o feed
            /\ nextLineupId' = nextLineupId + Len(feed)
            /\ page' = [page EXCEPT ![c] =
                 [FetchLineupStarted(@) EXCEPT !.lineupBusy = FALSE]]
       ELSE /\ page' = [page EXCEPT ![c].lineupBusy = FALSE]
            /\ UNCHANGED <<srvLineup, nextLineupId>>
  /\ lineupOp' = [lineupOp EXCEPT ![c] = NoLineupOp]
  /\ UNCHANGED <<srvEvents, srvGame, srvStatus, nextId, evtOp, saveOp, hist>>
  /\ UNCHANGED authVars

\* ---------------------------------------------------------------- Next
\* What one page can do next, with the event types that the operator and the
\* feed use and the scores that the operator types.
PageNext(c, types, scores) ==
  \/ \E t \in types, tm \in AddEvtTeams : AddEventClick(c, t, tm)
  \/ \E o \in Outcomes : AddEventPost(c, o)
  \/ \E o \in Outcomes : AddEventPatch(c, o)
  \/ \E id \in 1..MaxEventId : DeleteEventClick(c, id)
  \/ \E o \in Outcomes : DeleteEventDelete(c, o)
  \/ \E o \in Outcomes : DeleteEventPatch(c, o)
  \/ \E h \in scores, a \in scores, st \in Statuses : SaveGameClick(c, h, a, st)
  \/ \E o \in Outcomes : SaveGamePatch(c, o)
  \/ ResetStatusClick(c)
  \/ \E o \in Outcomes : ResetStatusPatch(c, o)
  \/ SyncEventsClick(c)
  \/ \E o \in Outcomes, f \in Feed(types) : SyncEventsPost(c, o, f)
  \/ \E o \in ReadOutcomes : FetchGameDone(c, o)
  \/ \E o \in ReadOutcomes : FetchEventsDone(c, o)

\* One operator page open on the match.
Next == PageNext("op1", Types, EditScores)

Spec == Init /\ [][Next]_vars

\* One operator page, every event type that does not count for the score and
\* goals; the operator types only 0 into the score inputs.
NonScoreTypes ==
  {"missed_penalty", "yellow_card", "second_yellow", "red_card",
   "substitution", "assist"}

NextCards == PageNext("op1", NonScoreTypes \cup {"goal"}, {0})

SpecCards == Init /\ [][NextCards]_vars

\* Two operator pages open on the same match.  Each operator appends goals and
\* own goals of a selected team and deletes events; every request is accepted,
\* except the DELETE of an event that the other page has already deleted.
TwoTypes == {"goal", "own_goal"}

NextTwo ==
  \E c \in Clients :
    \/ \E t \in TwoTypes, tm \in {"home", "away"} : AddEventClick(c, t, tm)
    \/ AddEventPost(c, "ok")
    \/ AddEventPatch(c, "ok")
    \/ \E id \in 1..MaxEventId : DeleteEventClick(c, id)
    \/ \E o \in {"ok", "fail"} : DeleteEventDelete(c, o)
    \/ DeleteEventPatch(c, "ok")
    \/ FetchGameDone(c, "ok")
    \/ FetchEventsDone(c, "ok")

SpecTwo == Init /\ [][NextTwo]_vars

\* One operator page, every status of the status select; the operator edits
\* nothing but the status and appends and deletes goals of the home team.
AllStatuses == {STATUS_OPTIONS[i] : i \in 1..Len(STATUS_OPTIONS)}

NextStatus ==
  \/ \E st \in AllStatuses : SaveGameClick("op1", 0, 0, st)
  \/ \E o \in Outcomes : SaveGamePatch("op1", o)
  \/ ResetStatusClick("op1")
  \/ \E o \in Outcomes : ResetStatusPatch("op1", o)
  \/ AddEventClick("op1", "goal", "home")
  \/ \E o \in Outcomes : AddEventPost("op1", o)
  \/ \E o \in Outcomes : AddEventPatch("op1", o)
  \/ \E id \in 1..MaxEventId : DeleteEventClick("op1", id)
  \/ \E o \in Outcomes : DeleteEventDelete("op1", o)
  \/ \E o \in Outcomes : DeleteEventPatch("op1", o)
  \/ \E o \in ReadOutcomes : FetchGameDone("op1", o)
  \/ \E o \in ReadOutcomes : FetchEventsDone("op1", o)

SpecStatus == Init /\ [][NextStatus]_vars

\* One operator page on the lineup section: the operator builds the lineup
\* with the add-lineup form and removes entries.
NextLineup ==
  \/ \E o \in ReadOutcomes : FetchGameDone("op1", o)
  \/ \E o \in ReadOutcomes : FetchLineupDone("op1", o)
  \/ \E side \in {"home", "away"} : SetAddLineupTeam("op1", side)
  \/ PlayersLoaded("op1")
  \/ \E n \in Players : SelectAddLineupPlayer("op1", String(n))
  \/ \E t \in Range(LINEUP_TYPES), cap \in BOOLEAN : AddLineupClick("op1", t, cap)
  \/ \E o \in Outcomes : AddLineupPost("op1", o)
  \/ \E id \in 1..MaxLineupId : DeleteLineupClick("op1", id)
  \/ \E o \in Outcomes : DeleteLineupDelete("op1", o)

SpecLineup == Init /\ [][NextLineup]_vars

\* One operator page on the add-event form of a match whose lineup holds a
\* starter and a substitute of the home team and a starter of the away team,
\* and whose ledger has room for one more event.  The operator fills the
\* form, appends the event and removes lineup entries.
FormTypes == {"goal", "own_goal", "penalty", "substitution"}

FormLineup ==
  <<LineupRow(1, 1, home_team_id, "starter", FALSE),
    LineupRow(2, 2, home_team_id, "substitute", FALSE),
    LineupRow(3, MaxPlayer, away_team_id, "starter", FALSE)>>

InitForm ==
  /\ srvEvents = <<>>
  /\ srvGame = Game(0, 0)
  /\ srvStatus = "created"
  /\ nextId = MaxEventId
  /\ page = [c \in Clients |-> NewPage]
  /\ evtOp = [c \in Clients |-> NoEvtOp]
  /\ saveOp = [c \in Clients |-> NoSaveOp]
  /\ hist = [c \in Clients |-> NoHist]
  /\ srvLineup = FormLineup
  /\ nextLineupId = Len(FormLineup) + 1
  /\ lineupOp = [c \in Clients |-> NoLineupOp]
  /\ SignedIn

NextForm ==
  \/ \E o \in ReadOutcomes : FetchGameDone("op1", o)
  \/ \E o \in ReadOutcomes : FetchEventsDone("op1", o)
  \/ \E o \in ReadOutcomes : FetchLineupDone("op1", o)
  \/ SetAddEvtMinute("op1", "45")
  \/ \E type \in FormTypes : SetAddEvtType("op1", type)
  \/ \E team \in AddEvtTeams : SetAddEvtTeam("op1", team)
  \/ \E n \in Players : HandlePlayerSelect("op1", String(n))
  \/ HandlePlayerSelect("op1", "")
  \/ \E n \in Players : SetAddEvtPlayer2Id("op1", String(n))
  \/ \E n \in Players : SetAddEvtAssistId("op1", String(n))
  \/ AddEventFormClick("op1")
  \/ \E o \in {"ok", "fail"} : AddEventPost("op1", o)
  \/ AddEventPatch("op1", "ok")
  \/ \E id \in 1..Len(FormLineup) : DeleteLineupClick("op1", id)
  \/ \E o \in {"ok", "fail"} : DeleteLineupDelete("op1", o)

SpecForm == InitForm /\ [][NextForm]_vars

\* One operator page on the Half select and the Minute input of the
\* add-event form: the operator appends goals of the home team.
NextTime ==
  \/ \E o \in ReadOutcomes : FetchGameDone("op1", o)
  \/ \E o \in ReadOutcomes : FetchEventsDone("op1", o)
  \/ \E half \in HalfOptions : SetAddEvtHalf("op1", half)
  \/ \E minute \in MinuteTexts : SetAddEvtMinute("op1", minute)
  \/ \E team \in {"home", "away"} : SetAddEvtTeam("op1", team)
  \/ AddEventFormClick("op1")
  \/ \E o \in {"ok", "fail"} : AddEventPost("op1", o)
  \/ \E o \in {"ok", "fail"} : AddEventPatch("op1", o)

SpecTime == Init /\ [][NextTime]_vars

\* ------------------------------------------- the recomputation on its own
\* The ledgers that GET /games/{id}/events can return: up to MaxLedger events
\* of the types in use, of the home team, the away team or no team.
MaxLedger == 3

Ledgers ==
  UNION {[1..n -> Types \X {home_team_id, away_team_id, no_team_id}] :
           n \in 0..MaxLedger}

LedgerOf(f) == [i \in 1..Len(f) |-> Event(i, f[i][1], f[i][2])]

\* The score recomputed from the events (deleteEvent, lines 466-476) is
\* stored with a ledger.
InitFold ==
  /\ \E f \in Ledgers :
       /\ srvEvents = LedgerOf(f)
       /\ srvGame = Game(FoldScore(LedgerOf(f))[1], FoldScore(LedgerOf(f))[2])
       /\ nextId = Len(f) + 1
  /\ srvStatus = "created"
  /\ page = [c \in Clients |-> NewPage]
  /\ evtOp = [c \in Clients |-> NoEvtOp]
  /\ saveOp = [c \in Clients |-> NoSaveOp]
  /\ hist = [c \in Clients |-> NoHist]
  /\ srvLineup = <<>>
  /\ nextLineupId = 1
  /\ lineupOp = [c \in Clients |-> NoLineupOp]
  /\ SignedIn

\* The same events come in another order: two neighbours change places.
Reorder(i) ==
  /\ i \in 1..(Len(srvEvents) - 1)
  /\ srvEvents' = [srvEvents EXCEPT ![i] = srvEvents[i + 1],
                                    ![i + 1] = srvEvents[i]]
  /\ UNCHANGED <<srvGame, srvStatus, nextId, page, evtOp, saveOp, hist>>
  /\ UNCHANGED lineupVars
  /\ UNCHANGED authVars

\* The score is recomputed from the events as they are now and stored.
Recompute ==
  /\ srvGame' = ScorePatched(srvGame, FoldScore(srvEvents)[1],
                             FoldScore(srvEvents)[2])
  /\ UNCHANGED <<srvEvents, srvStatus, nextId, page, evtOp, saveOp, hist>>
  /\ UNCHANGED lineupVars
  /\ UNCHANGED authVars

NextFold ==
  \/ \E i \in 1..MaxLedger : Reorder(i)
  \/ Recompute

SpecFold == InitFold /\ [][NextFold]_vars


\* One operator page with the game form: the operator ticks and clears the
\* 'Disable SOTA sync' checkbox, saves the form with the scores and the
\* status as loaded, and starts sync passes of the lineup and of the events.
NextSync ==
  \/ FetchGameDone("op1", "ok")
  \/ FetchEventsDone("op1", "ok")
  \/ FetchLineupDone("op1", "ok")
  \/ \E checked \in BOOLEAN : SetEditSyncDisabled("op1", checked)
  \/ SaveGameClick("op1", page["op1"].game.home_score, page["op1"].game.away_score, page["op1"].status)
  \/ \E o \in {"ok", "fail"} : SaveGamePatch("op1", o)
  \/ SyncEventsClick("op1")
  \/ \E o \in Outcomes, f \in Feed({"goal"}) : SyncEventsPost("op1", o, f)
  \/ SyncLineupClick("op1")
  \/ \E o \in Outcomes, f \in LineupFeed : SyncLineupPost("op1", o, f)

SpecSync == Init /\ [][NextSync]_vars

\* A match that has a lineup, a home penalty score and the sync flag set, all
\* stored earlier, and one operator page that opens on it.  The operator
\* edits the home penalty input and the checkbox, saves the form with the scores
\* and the status as loaded, and appends and deletes goals.
InitFrame ==
  /\ srvEvents = <<>>
  /\ srvGame = [Game(0, 0) EXCEPT !.home_penalty_score = 1, !.sync_disabled = TRUE]
  /\ srvStatus = "live"
  /\ nextId = 1
  /\ page = [c \in Clients |-> NewPage]
  /\ evtOp = [c \in Clients |-> NoEvtOp]
  /\ saveOp = [c \in Clients |-> NoSaveOp]
  /\ hist = [c \in Clients |-> NoHist]
  /\ srvLineup = FormLineup
  /\ nextLineupId = MaxLineupId + 2
  /\ lineupOp = [c \in Clients |-> NoLineupOp]
  /\ SignedIn

NextFrame ==
  \/ FetchGameDone("op1", "ok")
  \/ FetchEventsDone("op1", "ok")
  \/ \E checked \in BOOLEAN : SetEditSyncDisabled("op1", checked)
  \/ \E text \in PenaltyTexts : SetEditHomePenalty("op1", text)
  \/ SaveGameClick("op1", page["op1"].game.home_score, page["op1"].game.away_score, page["op1"].status)
  \/ \E o \in {"ok", "fail"} : SaveGamePatch("op1", o)
  \/ \E tm \in {"home", "away"} : AddEventClick("op1", "goal", tm)
  \/ AddEventPost("op1", "ok")
  \/ \E o \in Outcomes : AddEventPatch("op1", o)
  \/ \E id \in 1..MaxEventId : DeleteEventClick("op1", id)
  \/ DeleteEventDelete("op1", "ok")
  \/ \E o \in Outcomes : DeleteEventPatch("op1", o)

SpecFrame == InitFrame /\ [][NextFrame]_vars

\* ================================================================ claims
\* No handler of the page is between two awaits.
Idle(c) == evtOp[c].kind = "idle" /\ saveOp[c].kind = "idle"

\* What one event of the given type and form team stands for on the
\* scoreboard, as the own-goal rule states it.
Credit(type, team) ==
  IF type \in {"goal", "penalty"}
    THEN (IF team = "home" THEN <<1, 0>> ELSE <<0, 1>>)
  ELSE IF type = "own_goal"
    THEN (IF team = "home" THEN <<0, 1>> ELSE <<1, 0>>)
  ELSE <<0, 0>>

Plus(p, q) == <<p[1] + q[1], p[2] + q[2]>>

\* C1 (as claimed): whenever every started addEvent, deleteEvent, saveGame,
\* resetStatus and syncEvents has completed, the stored score is the count
\* over the ledger: goals and penalties of a team plus own goals of the other.
C1_ScoreIsLedgerCount ==
  (\A c \in Clients : Idle(c)) => Score(srvGame) = LedgerScore(srvEvents)

C3_AppendStoresFold ==
  \A c \in Clients :
    /\ hist[c].phase = "added"
    /\ hist[c].type \in SCORE_EVENT_TYPES
    /\ hist[c].team \in {"home", "away"}
    /\ Len(SelectSeq(srvEvents, LAMBDA e : e.event_type \in SCORE_EVENT_TYPES)) = 1
    => Score(srvGame) = LedgerScore(srvEvents)

C6_ReconciliationAtomic ==
  [][\A c \in Clients :
       evtOp[c].pc = "patch" /\ evtOp'[c].kind = "idle"
       => \/ Score(srvGame') = <<evtOp[c].home, evtOp[c].away>>
          \/ srvEvents' # srvEvents]_vars

\* The handlers between two awaits that change the match, as (page, section).
MutationsInFlight ==
  {<<c, "events">> : c \in {d \in Clients : evtOp[d].kind # "idle"}}
    \cup {<<c, "game">> : c \in {d \in Clients : saveOp[d].kind = "saveGame"}}

\* C7 (as claimed): of addEvent, deleteEvent, syncEvents and saveGame, at most
\* one is in flight for the match at any time.
C7_SingleWriter == Cardinality(MutationsInFlight) <= 1

\* C8 (as claimed): when two operators have appended and deleted goals and own
\* goals, every request accepted, and all their handlers have completed, the
\* stored score is the fold over the final ledger.
C8_NoLostUpdate ==
  (\A c \in Clients : Idle(c)) => Score(srvGame) = FoldScore(srvEvents)

ClosedStatuses == {"finished", "cancelled", "technical_defeat"}

\* spec, Match Lifecycle: created -> live -> finished, and the sibling
\* terminal statuses reachable from created or live.
Lifecycle ==
  {<<"created", "live">>, <<"live", "finished">>}
    \cup ({"created", "live"} \X {"postponed", "cancelled", "technical_defeat"})

\* The handler of page c that is at its PATCH of the status.
StatusWriter(c, kind) == saveOp[c].kind = kind /\ saveOp'[c].kind = "idle"

\* C11: a step taken while the match is finished, cancelled or
\* technical_defeat leaves the ledger and the stored score as they are.
C11_ClosedMatchGating ==
  [][(srvStatus \in ClosedStatuses /\ srvStatus' = srvStatus)
       => (srvEvents' = srvEvents)]_vars

C13_ResetToCreated ==
  [][\A c \in Clients :
       /\ (PageShown(c) /\ ~page[c].saveLoading)
            => ENABLED ResetStatusClick(c)
       /\ ResetStatusPatch(c, "ok") => (srvStatus' = "created")]_vars

\* The page shows technical_defeat, the reset was accepted, the match is
\* created and the reload is in flight.
C13_ResetFromClosed ==
  \E c \in Clients :
    /\ page[c].status = "technical_defeat"
    /\ srvStatus = "created"
    /\ page[c].gameLoading
    /\ saveOp[c].kind = "idle"


\* ------------------------------------------------- participants and lineup
\* The participant references of an event that are set.
Participants(e) == {e.player_id, e.player2_id, e.assist_player_id} \ {null}

\* The event that a step has appended to the ledger.
Appended == srvEvents'[Len(srvEvents')]

\* C14: at the moment an event is appended, each of its participants is a
\* player of an entry of the stored lineup.
C14_ParticipantsInLineup ==
  [][(Len(srvEvents') > Len(srvEvents))
       => (Participants(Appended)
             \subseteq {x.player_id : x \in Range(srvLineup)})]_vars

\* The team for which the roster lists a player; the lineup entries of
\* FormLineup are of that team.
TeamOfPlayer(n) ==
  IF n \in RosterOf("home") THEN home_team_id ELSE away_team_id

\* The entries of FormLineup of a team and a lineup type.
EntriesOf(team, type) ==
  {x.player_id : x \in {y \in Range(FormLineup) :
                          y.team_id = team /\ y.lineup_type = type}}

Credited ==
  IF Score(srvGame) = <<1, 0>> THEN home_team_id
  ELSE IF Score(srvGame) = <<0, 1>> THEN away_team_id
  ELSE no_team_id

\* C16: when addEvent has ended, a stored goal or penalty with a primary
\* participant is of the participant's team and that team's score was
\* incremented; for a stored own_goal with a primary participant the score of
\* the other team was incremented.
C16_ParticipantTeamRule ==
  \A e \in Range(srvEvents) :
    (/\ e.event_type \in SCORE_EVENT_TYPES
     /\ e.player_id # null
     /\ evtOp["op1"].kind = "idle")
      => /\ Credited # no_team_id
         /\ e.event_type \in {"goal", "penalty"}
              => (/\ e.team_id = TeamOfPlayer(e.player_id)
                  /\ Credited = TeamOfPlayer(e.player_id))
         /\ e.event_type = "own_goal"
              => (Credited # TeamOfPlayer(e.player_id))

\* An own goal of a player of the away team has been appended and the home
\* score was incremented.
C16_OwnGoalStored ==
  /\ evtOp["op1"].kind = "idle"
  /\ Score(srvGame) = <<1, 0>>
  /\ \E e \in Range(srvEvents) :
       /\ e.event_type = "own_goal"
       /\ e.player_id = MaxPlayer
       /\ e.team_id = away_team_id

\* C17: a step that removes a lineup entry removes one whose player no stored
\* event names as a participant.
C17_NoReferencedRemoval ==
  [][(Len(srvLineup') < Len(srvLineup))
       => (\A x \in Range(srvLineup) \ Range(srvLineup') :
             \A e \in Range(srvEvents) : x.player_id \notin Participants(e))]_vars

\* C19: no two entries of the stored lineup are of the same player.
C19_PlayerOnce ==
  \A i, j \in 1..Len(srvLineup) :
    i # j => srvLineup[i].player_id # srvLineup[j].player_id

\* C18: in a stored lineup whose entries are of different players, each team
\* has at most one captain.
C18_OneCaptainPerTeam ==
  C19_PlayerOnce
    => \A team \in {home_team_id, away_team_id} :
         Cardinality({i \in 1..Len(srvLineup) :
                        /\ srvLineup[i].team_id = team
                        /\ srvLineup[i].is_captain}) <= 1

\* C20: every stored event has a non-negative minute and a half the form
\* offers.
C20_TimeFieldsValid ==
  \A e \in Range(srvEvents) : e.minute >= 0 /\ e.half \in {1, 2}

\* C21: a rejected append is never partially applied.  When the POST of
\* addEvent is answered with a response that is not ok, or the fetch is
\* rejected, the handler ends there: no score write is left to be sent, the
\* stored score and the stored ledger are as before, and addEvtMsg shows the
\* message of the error, not 'Added!'.
C21_RejectedAppendNotApplied ==
  [][\A c \in Clients :
       (AddEventPost(c, "fail") \/ AddEventPost(c, "reject"))
         => (/\ evtOp'[c] = NoEvtOp
             /\ srvGame' = srvGame
             /\ srvEvents' = srvEvents
             /\ page'[c].addEvtMsg = ErrMsg
             /\ page'[c].addEvtMsg # AddedMsg
             /\ ~page'[c].eventsBusy)]_vars

\* An append has been rejected and the page shows the error: nothing has
\* ever been stored and no handler of the events section is running.
C21_AppendRejected ==
  \E c \in Clients :
    /\ page[c].addEvtMsg = ErrMsg
    /\ evtOp[c] = NoEvtOp
    /\ srvEvents = <<>> /\ nextId = 1
    /\ srvGame = Game(0, 0)

\* C22 (as claimed): a deleteEvent that ends has either had its DELETE
\* accepted, and then the stored score is the recomputation over the
\* remaining ledger, or had it refused, and then the ledger and the stored
\* score are as before and no score write follows.
C22_DeleteRecomputesOrLeaves ==
  [][\A c \in Clients :
       (evtOp[c].kind = "deleteEvent" /\ evtOp'[c].kind = "idle")
         => (IF evtOp[c].pc = "patch" \/ srvEvents' # srvEvents
               THEN Score(srvGame') = FoldScore(srvEvents')
               ELSE srvEvents' = srvEvents /\ srvGame' = srvGame)]_vars

\* C23 (as claimed): a sync pass cannot leave the score stale.  When
\* syncEvents ends after a pass that changed the ledger of a match whose
\* stored score was the recomputation over the ledger, the stored score is
\* the recomputation over the new ledger.
C23_SyncRecomputes ==
  [][\A c \in Clients :
       (/\ evtOp[c].kind = "syncEvents" /\ evtOp'[c].kind = "idle"
        /\ srvEvents' # srvEvents
        /\ Score(srvGame) = FoldScore(srvEvents))
         => (Score(srvGame') = FoldScore(srvEvents'))]_vars

\* C24: the frame of the score write.  The PATCH that patchScore sends after
\* an add or a delete changes nothing of the match but home_score and
\* away_score: the ledger, the lineup, the status, the penalty scores and
\* the sync flag are after it what they were before.
C24_ScoreWriteFrame ==
  [][\A c \in Clients : \A o \in Outcomes :
       (AddEventPatch(c, o) \/ DeleteEventPatch(c, o))
         => (/\ srvEvents' = srvEvents
             /\ srvLineup' = srvLineup
             /\ srvStatus' = srvStatus
             /\ srvGame'.home_penalty_score = srvGame.home_penalty_score
             /\ srvGame'.away_penalty_score = srvGame.away_penalty_score
             /\ srvGame'.sync_disabled = srvGame.sync_disabled
             /\ srvGame' = [srvGame EXCEPT !.home_score = srvGame'.home_score,
                                           !.away_score = srvGame'.away_score])]_vars

\* A score write has been accepted for a match that has a penalty score, the
\* sync flag set, a lineup entry and an event, and all of them are kept.
C24_ScoreWrittenBesideOthers ==
  /\ srvGame.sync_disabled
  /\ srvGame.home_penalty_score = 1
  /\ srvLineup # <<>>
  /\ srvEvents # <<>>
  /\ srvStatus = "live"
  /\ srvGame.home_score = 1

\* C27 (as claimed): a sync pass is started from the game page only while
\* the stored match has sync_disabled = FALSE, whatever the unsaved state of
\* the 'Disable SOTA sync' checkbox.
C27_SyncGatedByStoredFlag ==
  [][\A c \in Clients :
       (SyncEventsClick(c) \/ SyncLineupClick(c)) => ~srvGame.sync_disabled]_vars

C26_NoTeamCreditsNeither ==
  [][\A c \in Clients :
       (/\ AddEventPatch(c, "ok")
        /\ hist[c].phase = "adding" /\ hist[c].team = "")
         => (Score(srvGame') = hist[c].pre)]_vars

C29_LogoutIsFinal ==
  [][/\ (logoutOp = "request" /\ logoutOp' = "idle")
          => (accessToken' = null /\ user' = null)
     /\ (route = "login" /\ accessToken = null /\ user = null /\ ~LoginAnswered("ok"))
          => (accessToken' = null /\ user' = null)]_vars

\* C30 (as claimed): session bootstrap terminates.  After AuthProvider has
\* mounted, loading eventually becomes false, whatever the answers to
\* /auth/me and /auth/refresh, and ProtectedLayout then shows the protected
\* content or has left for the login page.
C30_BootstrapTerminates ==
  <>(~loading /\ (ProtectedShown \/ route = "login"))

====
